---- MODULE Spec2Model ----
(***************************************************************************)
(* Tixy: the two webhook handlers, register_organizer                      *)
(* (src/register-organizer.py) and create_event (src/app.py), run by       *)
(* concurrent Flask workers against the two shared Pinecone indexes.       *)
(* A handler is cut into one atomic step per call on a shared or external  *)
(* service; the local code between two calls belongs to the step of the    *)
(* call before it.  Outcomes of the external services (embedding,          *)
(* completion, ManyChat) are inputs of the steps.  The Pinecone calls are  *)
(* taken to return (no transport failure of the store is modelled).        *)
(***************************************************************************)
EXTENDS Naturals, Sequences, FiniteSets, Bags, TLC

\* ---------------------------------------------------------------- bounds
\* Concurrent Flask workers: the requests under way at one time.
NumWorkers == 2

\* Python's None, as data.get() returns it for an absent key.
None == "<None>"

\* ---------------------------------------------------------------- inputs
RegisterFields == {"messenger_user_id", "organizer_name", "organizer_email"}

\* JSON bodies of POST /register-organizer that hold the keys of one of keysets.
RegisterBodies(keysets, ids, names, emails) ==
    UNION { { d \in [S -> ids \cup names \cup emails] :
                /\ "messenger_user_id" \in S => d["messenger_user_id"] \in ids
                /\ "organizer_name" \in S => d["organizer_name"] \in names
                /\ "organizer_email" \in S => d["organizer_email"] \in emails }
            : S \in keysets }

\* JSON bodies of POST /create-event.
CreateBodies(emails, titles, starts, locations) ==
    [ organizer_email : emails, event_title : titles,
      event_description : {"desc"}, event_start_date : starts,
      event_end_date : {"end"}, event_location : locations,
      event_location_map : {"map"}, event_graphics : {"img"},
      messenger_user_id : {"u1"} ]

\* Concurrent specification: few payloads.
RegisterPayloads ==
    RegisterBodies({RegisterFields, RegisterFields \ {"messenger_user_id"}},
                   {"u1", "u2"}, {"Alice"}, {"a@x.com"})
CreatePayloads == CreateBodies({"a@x.com", "b@y.com"}, {"gig"}, {"05"}, {"", "hall"})

\* Sequential specification: titles and dates that contain "-".
SeqRegisterPayloads ==
    RegisterBodies(SUBSET RegisterFields, {"u1"}, {"Alice"}, {"a@x.com", "b@y.com"})
SeqCreatePayloads ==
    CreateBodies({"a@x.com"}, {"gig", "gig-2024"}, {"05", "2024-05"}, {"", "hall"})

\* The verdict dictionaries the completion may give (validate_event_data's
\* prompt asks for one entry per field, 'OK' or an error message).
VerdictFields == {"event_location", "event_start_date", "event_end_date",
                  "event_location_map", "event_graphics"}
AllOK == [f \in VerdictFields |-> "OK"]
NoVerdicts == [f \in VerdictFields |-> None]
Verdicts == {AllOK,
             [AllOK EXCEPT !["event_location"] = "too vague"],
             [AllOK EXCEPT !["event_start_date"] = "after end date"]}
\* openai.Completion.create raises; the text does not eval to a dict; or a dict.
CompletionOutcomes ==
    {[result |-> "raise", verdicts |-> NoVerdicts],
     [result |-> "malformed", verdicts |-> NoVerdicts]}
    \cup {[result |-> "dict", verdicts |-> v] : v \in Verdicts}

\* requests.post in the ManyChat helpers: 200, another status, or an exception.
PostOutcomes == {"ok", "non200", "raise"}

\* ---------------------------------------------------------------- state
VARIABLES
    organizer_index,   \* Pinecone index "tixy-organizers": a set of vectors
    event_index,       \* Pinecone index "tixy-events": a set of vectors
    req,               \* the requests under way: a bag of request records
    organizer_upserts, \* history: the vectors upserted into organizer_index, in order
    event_upserts,     \* history: (id, email, title, start date) of every event upsert
    successes          \* history: per email, the 200 responses of register_organizer

vars == <<organizer_index, event_index, req, organizer_upserts, event_upserts, successes>>

\* A request as a handler receives it: its locals are not yet set.
NewReq(kind, data) ==
    [kind |-> kind, data |-> data, pc |-> "begin", status |-> 0,
     calls |-> <<>>, found |-> FALSE, embedding |-> None,
     validation_result_json |-> NoVerdicts, details |-> NoVerdicts]

Reqs == BagToSet(req)

\* A worker takes a new request, which has got as far as r.
Take(r) == BagCardinality(req) < NumWorkers /\ req' = req (+) SetToBag({r})

\* The request r moves on to r2.
Move(r, r2) == req' = (req (-) SetToBag({r})) (+) SetToBag({r2})

\* data.get(k)
Get(data, k) == IF k \in DOMAIN data THEN data[k] ELSE None

\* Python truthiness of a field value: None and "" are falsy.
Truthy(v) == v # None /\ v # ""

Ids(index) == { v.id : v \in index }

\* index.fetch(ids=[id])['vectors']
Fetch(index, id) == { v \in index : v.id = id }

\* Mutant: an upsert that keeps the vector already stored under the id.
UpsertKeepsExisting(index, vector) ==
    IF vector.id \in Ids(index) THEN index ELSE index \cup {vector}

\* index.upsert([vector]): insert or replace the vector with that id.
Upsert(index, vector) == { v \in index : v.id # vector.id } \cup {vector}

\* The embedding of a text, when the service answers.
Embedding(text) == "ada-002(" \o text \o ")"

Contains(calls, c) == \E i \in 1..Len(calls) : calls[i] = c

Call(r, c) == [r EXCEPT !.calls = Append(@, c)]

\* The handler returns (or Flask answers for it) with this HTTP status.
Return(r, status) == [r EXCEPT !.pc = "done", !.status = status]

Init ==
    /\ organizer_index = {}
    /\ event_index = {}
    /\ req = EmptyBag
    /\ organizer_upserts = <<>>
    /\ event_upserts = {}
    /\ successes = [e \in {} |-> 0]

\* ------------------------------------------------- register_organizer
\* Lines 55-64: read the three keys (a missing key is a KeyError, which
\* Flask answers with 500), fetch the organizer by email, branch.
RegisterBegin(data) ==
    /\ LET r == NewReq("register", data) IN
       IF ~(RegisterFields \subseteq DOMAIN data)
       THEN Take(Return(r, 500))
       ELSE LET existing_organizers == Fetch(organizer_index, data["organizer_email"])
                c == [Call(r, "organizer_index.fetch")
                        EXCEPT !.found = (existing_organizers # {})]
            IN Take([c EXCEPT !.pc = IF c.found THEN "notify_exists" ELSE "embed"])
    /\ UNCHANGED <<organizer_index, event_index, organizer_upserts, event_upserts, successes>>

\* send_to_manychat, lines 37-50: requests.post is not guarded, so a
\* transport error propagates; otherwise the boolean is status_code == 200.
\* The result is what the caller sees: "True", "False" or "raise".
send_to_manychat(outcome) ==
    CASE outcome = "ok" -> "True"
      [] outcome = "non200" -> "False"
      [] outcome = "raise" -> "raise"

\* Lines 65-66: the "already exists" message, then 409.
RegisterNotifyExists(outcome) ==
    \E r \in Reqs :
    /\ r.kind = "register" /\ r.pc = "notify_exists"
    /\ LET c == Call(r, "send_to_manychat:exists") IN
       Move(r, IF send_to_manychat(outcome) = "raise" THEN Return(c, 500)
               ELSE Return(c, 409))
    /\ UNCHANGED <<organizer_index, event_index, organizer_upserts, event_upserts, successes>>

\* Lines 69-70: the embedding of the organizer name; a failure of the call
\* is an exception, which Flask answers with 500.
RegisterEmbed(ok) ==
    \E r \in Reqs :
    /\ r.kind = "register" /\ r.pc = "embed"
    /\ LET c == Call(r, "openai.Embedding.create") IN
       Move(r, IF ok THEN [c EXCEPT !.pc = "upsert",
                                    !.embedding = Embedding(c.data["organizer_name"])]
               ELSE Return(c, 500))
    /\ UNCHANGED <<organizer_index, event_index, organizer_upserts, event_upserts, successes>>

\* Lines 73-78: the vector (id, values, metadata); **data adds every key of
\* the body to the metadata.
organizer_vector(r) ==
    [id |-> r.data["organizer_email"], values |-> r.embedding, metadata |-> r.data]

\* Mutant: the handler returns 200 right after the upsert, without the message.
RegisterUpsertThenReturn ==
    \E r \in Reqs :
    /\ r.kind = "register" /\ r.pc = "upsert"
    /\ organizer_index' = Upsert(organizer_index, organizer_vector(r))
    /\ organizer_upserts' = Append(organizer_upserts, organizer_vector(r))
    /\ Move(r, Return(Call(r, "organizer_index.upsert"), 200))
    /\ UNCHANGED <<event_index, event_upserts, successes>>

\* Lines 73-79.
RegisterUpsert ==
    \E r \in Reqs :
    /\ r.kind = "register" /\ r.pc = "upsert"
    /\ organizer_index' = Upsert(organizer_index, organizer_vector(r))
    /\ organizer_upserts' = Append(organizer_upserts, organizer_vector(r))
    /\ Move(r, [Call(r, "organizer_index.upsert") EXCEPT !.pc = "notify_success"])
    /\ UNCHANGED <<event_index, event_upserts, successes>>

Count(f, e) == IF e \in DOMAIN f THEN f[e] ELSE 0

\* Lines 82-83: the success message, then 200.
RegisterNotifySuccess(outcome) ==
    \E r \in Reqs :
    /\ r.kind = "register" /\ r.pc = "notify_success"
    /\ LET c == Call(r, "send_to_manychat:success")
           e == r.data["organizer_email"]
       IN IF send_to_manychat(outcome) = "raise"
          THEN /\ Move(r, Return(c, 500))
               /\ UNCHANGED successes
          ELSE /\ Move(r, Return(c, 200))
               /\ successes' = [x \in DOMAIN successes \cup {e} |->
                                  IF x = e THEN Count(successes, e) + 1
                                  ELSE successes[x]]
    /\ UNCHANGED <<organizer_index, event_index, organizer_upserts, event_upserts>>

\* ------------------------------------------------------- create_event
CreateRequired == {"organizer_email", "event_title", "event_start_date",
                   "event_end_date", "event_location"}

\* Mutant: all() for any() at line 68: only a dict with no 'OK' at all is refused.
CreateBeginAllBad(data, completion) ==
    /\ LET r == NewReq("create", data) IN
       Take(
         IF ~(\A f \in CreateRequired : Truthy(Get(data, f)))
         THEN Return(r, 400)
         ELSE LET c == Call(r, "openai.Completion.create")
                  v == [c EXCEPT !.validation_result_json = completion.verdicts]
              IN
              IF completion.result \in {"raise", "malformed"} THEN Return(c, 500)
              ELSE IF \A f \in VerdictFields : v.validation_result_json[f] # "OK"
                   THEN Return([v EXCEPT !.details = v.validation_result_json], 400)
                   ELSE [v EXCEPT !.pc = "fetch"])
    /\ UNCHANGED <<organizer_index, event_index, organizer_upserts, event_upserts, successes>>

\* Lines 45-69: the required fields, then validate_event_data (lines 19-39)
\* and the verdicts.  An exception of the completion gives None and 500;
\* a text eval() cannot turn into a dict raises, which line 105 catches.
\* details is the "details" entry of the response body, when it has one.
CreateBegin(data, completion) ==
    /\ LET r == NewReq("create", data) IN
       Take(
         IF ~(\A f \in CreateRequired : Truthy(Get(data, f)))
         THEN Return(r, 400)
         ELSE LET c == Call(r, "openai.Completion.create")
                  v == [c EXCEPT !.validation_result_json = completion.verdicts]
              IN
              IF completion.result \in {"raise", "malformed"} THEN Return(c, 500)
              ELSE IF \E f \in VerdictFields : v.validation_result_json[f] # "OK"
                   THEN Return([v EXCEPT !.details = v.validation_result_json], 400)
                   ELSE [v EXCEPT !.pc = "fetch"])
    /\ UNCHANGED <<organizer_index, event_index, organizer_upserts, event_upserts, successes>>

\* Mutant: the test of line 73 is missing.
CreateFetchNoCheck ==
    \E r \in Reqs :
    /\ r.kind = "create" /\ r.pc = "fetch"
    /\ LET existing_organizer == Fetch(organizer_index, r.data.organizer_email)
           c == [Call(r, "organizer_index.fetch")
                   EXCEPT !.found = (existing_organizer # {})]
       IN Move(r, [c EXCEPT !.pc = "embed"])
    /\ UNCHANGED <<organizer_index, event_index, organizer_upserts, event_upserts, successes>>

\* Mutant: the embedding is asked for before the test of line 73.
CreateFetchAfterEmbed ==
    \E r \in Reqs :
    /\ r.kind = "create" /\ r.pc = "fetch"
    /\ LET existing_organizer == Fetch(organizer_index, r.data.organizer_email)
           c == [Call(r, "organizer_index.fetch")
                   EXCEPT !.found = (existing_organizer # {})]
       IN Move(r, IF ~c.found THEN Return(Call(c, "openai.embeddings.create"), 404)
                  ELSE [c EXCEPT !.pc = "embed"])
    /\ UNCHANGED <<organizer_index, event_index, organizer_upserts, event_upserts, successes>>

\* Lines 72-74: the organizer must exist.
CreateFetch ==
    \E r \in Reqs :
    /\ r.kind = "create" /\ r.pc = "fetch"
    /\ LET existing_organizer == Fetch(organizer_index, r.data.organizer_email)
           c == [Call(r, "organizer_index.fetch")
                   EXCEPT !.found = (existing_organizer # {})]
       IN Move(r, IF ~c.found THEN Return(c, 404) ELSE [c EXCEPT !.pc = "embed"])
    /\ UNCHANGED <<organizer_index, event_index, organizer_upserts, event_upserts, successes>>

\* Mutant: a failed embedding is swallowed and the handler goes on to the upsert.
CreateEmbedSwallowsFailure(ok) ==
    \E r \in Reqs :
    /\ r.kind = "create" /\ r.pc = "embed"
    /\ LET c == Call(r, "openai.embeddings.create") IN
       Move(r, IF ok THEN [c EXCEPT !.pc = "upsert",
                                    !.embedding = Embedding(c.data.event_description)]
               ELSE [c EXCEPT !.pc = "upsert"])
    /\ UNCHANGED <<organizer_index, event_index, organizer_upserts, event_upserts, successes>>

\* Lines 77-81: the embedding of the description; an exception is caught
\* at line 105 and answered with 500.
CreateEmbed(ok) ==
    \E r \in Reqs :
    /\ r.kind = "create" /\ r.pc = "embed"
    /\ LET c == Call(r, "openai.embeddings.create") IN
       Move(r, IF ok THEN [c EXCEPT !.pc = "upsert",
                                    !.embedding = Embedding(c.data.event_description)]
               ELSE Return(c, 500))
    /\ UNCHANGED <<organizer_index, event_index, organizer_upserts, event_upserts, successes>>

\* Mutant: the title is left out of the key.
event_id_without_title(organizer_email, event_title, event_start_date) ==
    organizer_email \o "-" \o event_start_date

\* Line 84: f"{organizer_email}-{event_title}-{event_start_date}"
event_id(organizer_email, event_title, event_start_date) ==
    organizer_email \o "-" \o event_title \o "-" \o event_start_date

\* Lines 84-94.
event_vector(r) ==
    [id |-> event_id(r.data.organizer_email, r.data.event_title, r.data.event_start_date),
     values |-> r.embedding,
     metadata |-> [f \in DOMAIN r.data \ {"messenger_user_id"} |-> r.data[f]]]

\* Lines 84-96.
CreateUpsert ==
    \E r \in Reqs :
    /\ r.kind = "create" /\ r.pc = "upsert"
    /\ event_index' = Upsert(event_index, event_vector(r))
    /\ event_upserts' = event_upserts \cup
          {[id |-> event_vector(r).id,
            organizer_email |-> r.data.organizer_email,
            event_title |-> r.data.event_title,
            event_start_date |-> r.data.event_start_date]}
    /\ Move(r, [Call(r, "event_index.upsert") EXCEPT !.pc = "set_attribute"])
    /\ UNCHANGED <<organizer_index, organizer_upserts, successes>>

\* update_manychat_user_attribute, lines 172-195: every exception is caught;
\* the result is a boolean.
update_manychat_user_attribute(outcome) ==
    IF outcome = "ok" THEN "True" ELSE "False"

\* Lines 99-104: the attribute event_addition, then 200 whatever it returned.
CreateSetAttribute(outcome) ==
    \E r \in Reqs :
    /\ r.kind = "create" /\ r.pc = "set_attribute"
    /\ LET c == Call(r, "update_manychat_user_attribute") IN
       \* lines 99-102 only log the boolean; line 104 returns 200 either way
       Move(r, IF update_manychat_user_attribute(outcome) = "True" THEN Return(c, 200)
               ELSE Return(c, 200))
    /\ UNCHANGED <<organizer_index, event_index, organizer_upserts, event_upserts, successes>>

\* The response is delivered and the worker is free again.
Respond ==
    \E r \in Reqs :
    /\ r.pc = "done"
    /\ req' = req (-) SetToBag({r})
    /\ UNCHANGED <<organizer_index, event_index, organizer_upserts, event_upserts, successes>>

\* The steps of the requests under way.
Step ==
    \/ \E outcome \in PostOutcomes : RegisterNotifyExists(outcome)
    \/ \E ok \in BOOLEAN : RegisterEmbed(ok)
    \/ RegisterUpsert
    \/ \E outcome \in PostOutcomes : RegisterNotifySuccess(outcome)
    \/ CreateFetch
    \/ \E ok \in BOOLEAN : CreateEmbed(ok)
    \/ CreateUpsert
    \/ \E outcome \in PostOutcomes : CreateSetAttribute(outcome)
    \/ Respond

\* Concurrent workers: requests interleave at every call.
Next ==
    \/ \E data \in RegisterPayloads : RegisterBegin(data)
    \/ \E data \in CreatePayloads, completion \in CompletionOutcomes :
          CreateBegin(data, completion)
    \/ Step

Spec == Init /\ [][Next]_vars

\* Sequential run: a request is taken only when no other is under way.
NoneUnderWay == req = EmptyBag

SeqNext ==
    \/ NoneUnderWay /\ \E data \in SeqRegisterPayloads : RegisterBegin(data)
    \/ NoneUnderWay /\ \E data \in SeqCreatePayloads, completion \in CompletionOutcomes :
          CreateBegin(data, completion)
    \/ Step

SeqSpec == Init /\ [][SeqNext]_vars

\* ------------------------------------------------------------- claims
Done(r) == r.pc = "done"

IndexOf(calls, c) == CHOOSE i \in 1..Len(calls) : calls[i] = c

ValidRegister(r) == r.kind = "register" /\ RegisterFields \subseteq DOMAIN r.data

\* C1 (as claimed): in a sequential run, a registration with the three fields
\* whose email had no record (and whose embedding was given) returns 200 and
\* leaves a record under the email, one that finds a record returns 409, and
\* between requests an email with a record has exactly one 200 to its name.
C1_RegistersExactlyOnce ==
    /\ \A r \in Reqs :
         ValidRegister(r) /\ Done(r) =>
           /\ r.found => r.status = 409
           /\ ~r.found /\ r.embedding # None =>
                r.status = 200 /\ r.data["organizer_email"] \in Ids(organizer_index)
    /\ NoneUnderWay =>
         \A e \in Ids(organizer_index) : Count(successes, e) = 1

\* C2: every event vector stored carries the email of a stored organizer.
C2_EventHasOrganizer ==
    \A v \in event_index : v.metadata.organizer_email \in Ids(organizer_index)

\* C2's case: an event is stored while a create-event for an email without
\* organizer has been refused.
C2_Witness ==
    /\ event_index # {}
    /\ \E r \in Reqs : r.kind = "create" /\ Done(r) /\ r.status = 404

\* C3 (as claimed): a registration body that lacks a required key is answered
\* with 400, without any call to the embedding service or the store.
C3_MissingFieldIs400 ==
    \A r \in Reqs :
        r.kind = "register" /\ ~(RegisterFields \subseteq DOMAIN r.data) =>
            Done(r) /\ r.status = 400 /\ r.calls = <<>>

\* C4: a create-event that got as far as the organizer fetch and found no
\* record has returned 404 and has called neither the embedding service nor
\* the event upsert.
C4_UnknownOrganizerIs404 ==
    \A r \in Reqs :
        r.kind = "create" /\ Contains(r.calls, "organizer_index.fetch") /\ ~r.found =>
            /\ Done(r) /\ r.status = 404
            /\ ~Contains(r.calls, "openai.embeddings.create")
            /\ ~Contains(r.calls, "event_index.upsert")

\* C4's case: a create-event with valid fields and all verdicts OK, for an
\* email without record, has been answered.
C4_Witness ==
    \E r \in Reqs :
        /\ r.kind = "create" /\ Done(r) /\ r.status = 404
        /\ r.validation_result_json = AllOK
        /\ r.data.organizer_email \notin Ids(organizer_index)

\* C5 (as claimed): whatever the ManyChat call did, a registration that sent
\* the "already exists" message returns 409, one that sent the success
\* message returns 200, and a create-event that set the attribute returns 200.
C5_NotificationNeverChangesStatus ==
    \A r \in Reqs :
        Done(r) =>
            /\ Contains(r.calls, "send_to_manychat:exists") => r.status = 409
            /\ Contains(r.calls, "send_to_manychat:success") => r.status = 200
            /\ Contains(r.calls, "update_manychat_user_attribute") => r.status = 200

Differences(a, b) ==
    Cardinality({ f \in {"organizer_email", "event_title", "event_start_date"} :
                    a[f] # b[f] })

SomeVerdictBad(r) == \E f \in VerdictFields : r.validation_result_json[f] \notin {"OK", None}

NoStoreOrEmbedCall(r) ==
    /\ ~Contains(r.calls, "organizer_index.fetch")
    /\ ~Contains(r.calls, "openai.embeddings.create")
    /\ ~Contains(r.calls, "event_index.upsert")

\* C7 (as claimed): a create-event whose verdicts are not all OK, or whose
\* event_location is the empty string, returns 400 with the verdicts as
\* details, and makes no organizer fetch, embedding call or event upsert.
C7_BadFieldsGiveVerdictDetails ==
    \A r \in Reqs :
        r.kind = "create" /\ (SomeVerdictBad(r) \/ r.data.event_location = "") =>
            /\ Done(r) /\ r.status = 400
            /\ r.details # NoVerdicts
            /\ NoStoreOrEmbedCall(r)

\* C7 (amended): a create-event whose verdicts are not all OK returns 400
\* with exactly these verdicts as details, after the completion call alone;
\* one whose event_location is empty returns 400 without details and
\* without any call.
C7_BadVerdictsGiveDetails ==
    \A r \in Reqs :
        r.kind = "create" =>
            /\ SomeVerdictBad(r) =>
                 /\ Done(r) /\ r.status = 400
                 /\ r.details = r.validation_result_json
                 /\ r.calls = <<"openai.Completion.create">>
            /\ r.data.event_location = "" =>
                 /\ Done(r) /\ r.status = 400
                 /\ r.details = NoVerdicts
                 /\ r.calls = <<>>

\* C7's case: one create-event refused for a verdict on a field other than
\* the location, another refused for its empty location.
C7_Witness ==
    \E r, q \in Reqs :
        /\ r.kind = "create" /\ Done(r)
        /\ r.validation_result_json["event_start_date"] = "after end date"
        /\ r.validation_result_json["event_location"] = "OK"
        /\ q.kind = "create" /\ Done(q) /\ q.data.event_location = ""

LastUpsert(id) ==
    LET I == { i \in 1..Len(organizer_upserts) : organizer_upserts[i].id = id }
    IN organizer_upserts[CHOOSE i \in I : \A j \in I : j <= i]

\* C9: the organizer index holds one vector per email, the one of the latest
\* upsert under that email, whatever the interleaving; a registration returns
\* 200 only when its own fetch found nothing.
C9_LastUpsertWins ==
    /\ \A v, u \in organizer_index : v.id = u.id => v = u
    /\ Ids(organizer_index) =
         { organizer_upserts[i].id : i \in 1..Len(organizer_upserts) }
    /\ \A v \in organizer_index : v = LastUpsert(v.id)
    /\ \A r \in Reqs : r.kind = "register" /\ r.status = 200 => ~r.found

\* C9's case: two registrations of one email, by different subscribers, have
\* both found nothing, both upserted and both returned 200; the record is the
\* second one's.
C9_Witness ==
    /\ Len(organizer_upserts) = 2
    /\ organizer_upserts[1].id = organizer_upserts[2].id
    /\ organizer_upserts[1] # organizer_upserts[2]
    /\ organizer_index = {organizer_upserts[2]}
    /\ \E r, q \in Reqs :
         /\ r.kind = "register" /\ Done(r) /\ r.status = 200
         /\ q.kind = "register" /\ Done(q) /\ q.status = 200
         /\ organizer_vector(r) = organizer_upserts[1]
         /\ organizer_vector(q) = organizer_upserts[2]

EmbedCalls == {"openai.Embedding.create", "openai.embeddings.create"}
UpsertCalls == {"organizer_index.upsert", "event_index.upsert"}

\* C10: a request whose embedding call failed has returned 500 and made no
\* upsert; an upsert comes only after an embedding call that gave a vector,
\* so no vector without embedding is ever stored.
C10_EmbedFailureStoresNothing ==
    /\ \A r \in Reqs :
         /\ (\E c \in EmbedCalls : Contains(r.calls, c)) /\ r.embedding = None =>
              /\ Done(r) /\ r.status = 500
              /\ \A u \in UpsertCalls : ~Contains(r.calls, u)
         /\ \A u \in UpsertCalls : Contains(r.calls, u) =>
              /\ r.embedding # None
              /\ \E c \in EmbedCalls :
                   Contains(r.calls, c) /\ IndexOf(r.calls, c) < IndexOf(r.calls, u)
    /\ \A v \in organizer_index \cup event_index : v.values # None

\* C10's case: a registration and a create-event have both lost their
\* embedding call, with an organizer already stored.
C10_Witness ==
    /\ organizer_index # {}
    /\ \E r, q \in Reqs :
         /\ r.kind = "register" /\ Done(r) /\ r.status = 500
         /\ Contains(r.calls, "openai.Embedding.create") /\ r.embedding = None
         /\ q.kind = "create" /\ Done(q) /\ q.status = 500
         /\ Contains(q.calls, "openai.embeddings.create") /\ q.embedding = None

====
